---- MODULE Spec2Model ----
(***************************************************************************)
(* Model of modbusreader: structutils (type table, packing, decoding),     *)
(* ModbusReader.group_modbus_device_definition, read_discretes,            *)
(* read_registers and read_all_values.                                     *)
(*                                                                         *)
(* Numbers.  A Python number is a record [k, n, d]:                        *)
(*   k = "q"    the rational n/d in lowest terms, d > 0                    *)
(*   k = "sub"  a subnormal binary32, (n/d) * 2^-149                       *)
(*   k = "inf"  +/- infinity (sign of n),  k = "nan"  not-a-number         *)
(*   k = "bool" a Python bool, n in {0, 1}                                 *)
(* Float arithmetic is taken as exact arithmetic on these values.          *)
(***************************************************************************)
EXTENDS Integers, Sequences, FiniteSets, TLC

VARIABLES
    definition,     \* modbus_device_definition handed to __init__
    flbf,           \* self.float_low_byte_first
    phase,          \* "new" | "ready" | "failed"  (construction)
    ctor_error,     \* exception raised by __init__, "none" if none
    grouped,        \* self.grouped_modbus_device_definition
    client,         \* self.client: "none" | "ModbusTcpClient"
    safe_math,      \* module global _safe_math_functions
    pc,             \* "idle" | "reading"
    api,            \* public read method in progress / last called
    arg,            \* its type argument ("input", "output", ...)
    cat,            \* index into FunctionTypes of the category being read
    gi,             \* index of the next group of that category
    inner,          \* sensor_readings of read_discretes / read_registers
    merged,         \* sensor_readings of read_all_values
    calls,          \* range reads issued to self.client by the current call
    outcome,        \* what the last call returned or raised
    failed_at,      \* where the current call raised, kind "none" if nowhere
    codec           \* structutils round trip under test (SpecCodec)

vars == <<definition, flbf, phase, ctor_error, grouped, client, safe_math, pc,
          api, arg, cat, gi, inner, merged, calls, outcome, failed_at, codec>>

-----------------------------------------------------------------------------
(* Arithmetic helpers *)

Abs(a) == IF a < 0 THEN -a ELSE a

Min(a, b) == IF a < b THEN a ELSE b

RECURSIVE GCD(_, _)
GCD(a, b) == IF b = 0 THEN a ELSE GCD(b, a % b)

RECURSIVE Pow2(_)
Pow2(e) == IF e = 0 THEN 1 ELSE 2 * Pow2(e - 1)

RECURSIVE Pow10(_)
Pow10(e) == IF e = 0 THEN 1 ELSE 10 * Pow10(e - 1)

\* integer quotient truncated toward zero, as Python's int() of a quotient
Trunc(a, b) == IF (a < 0) = (b < 0) THEN Abs(a) \div Abs(b) ELSE -(Abs(a) \div Abs(b))

\* nearest integer of a/b (b > 0), ties to even, as Python's round()
RoundHalfEven(a, b) ==
    LET f == a \div b
        r == a % b
    IN  IF 2 * r < b THEN f
        ELSE IF 2 * r > b THEN f + 1
        ELSE IF f % 2 = 0 THEN f ELSE f + 1

\* floor(sqrt(v)) by bisection: lo * lo <= v < hi * hi
RECURSIVE ISqrtBetween(_, _, _)
ISqrtBetween(v, lo, hi) ==
    IF hi - lo <= 1 THEN lo
    ELSE LET mid == (lo + hi) \div 2
         IN  IF mid * mid <= v THEN ISqrtBetween(v, mid, hi) ELSE ISqrtBetween(v, lo, mid)

ISqrt(v) == ISqrtBetween(v, 0, Min(v, 46340) + 1)

\* whether d divides 10^k
RECURSIVE DividesPow10(_, _)
DividesPow10(d, k) ==
    IF d = 1 THEN TRUE
    ELSE IF k = 0 THEN FALSE
    ELSE IF d % 10 = 0 THEN DividesPow10(d \div 10, k - 1)
    ELSE IF d % 2 = 0 THEN DividesPow10(d \div 2, k - 1)
    ELSE IF d % 5 = 0 THEN DividesPow10(d \div 5, k - 1)
    ELSE FALSE

\* the record of kind k for n/d, in lowest terms
Num(k, n, d) ==
    LET g == GCD(Abs(n), Abs(d))
        s == IF d < 0 THEN -1 ELSE 1
    IN  IF n = 0 THEN [k |-> k, n |-> 0, d |-> 1]
        ELSE [k |-> k, n |-> s * (n \div g), d |-> s * (d \div g)]

Q(n, d) == Num("q", n, d)

PyBool(b) == [k |-> "bool", n |-> IF b THEN 1 ELSE 0, d |-> 1]

NaN == [k |-> "nan", n |-> 0, d |-> 1]

\* v * (p/q), cancelling before multiplying
NumMul(v, p, q) ==
    IF v.k = "nan" THEN NaN
    ELSE IF v.k = "inf" THEN [v EXCEPT !.n = IF (p < 0) = (v.n < 0) THEN 1 ELSE -1]
    ELSE LET g1 == GCD(Abs(v.n), Abs(q))
             g2 == GCD(Abs(p), Abs(v.d))
             n1 == IF v.n = 0 THEN 0 ELSE (v.n \div g1) * (p \div g2)
             d1 == IF v.n = 0 THEN 1 ELSE (v.d \div g2) * (q \div g1)
         IN  Num(IF v.k = "bool" \/ v.n = 0 THEN "q" ELSE v.k, n1, d1)

\* Python's round(v, k)
PyRound(v, k) ==
    IF v.k \in {"nan", "inf"} THEN v
    ELSE IF v.k = "sub" THEN Q(0, 1)
    ELSE IF k >= 0 /\ DividesPow10(v.d, k) THEN Q(v.n, v.d)
    ELSE IF k >= 0 THEN Q(RoundHalfEven(v.n * Pow10(k), v.d), Pow10(k))
    ELSE Q(RoundHalfEven(v.n, v.d * Pow10(-k)) * Pow10(-k), 1)

-----------------------------------------------------------------------------
(* structutils.py *)

\* _data_types: human readable data type -> struct format character
DataTypeNames == {"int16", "int32", "uint32", "float", "byte", "boolean"}

data_types(t) ==
    CASE t = "int16" -> "h"
      [] t = "int32" -> "H"
      [] t = "uint32" -> "I"
      [] t = "float" -> "f"
      [] t = "byte" -> "x"
      [] t = "boolean" -> "?"

\* struct.calcsize of one format character (standard sizes)
StructSize(fmt) ==
    CASE fmt \in {"h", "H"} -> 2
      [] fmt \in {"I", "f"} -> 4
      [] fmt \in {"x", "?"} -> 1

Ok(v) == [ok |-> TRUE, err |-> "none", v |-> v]

Raise(e) == [ok |-> FALSE, err |-> e, v |-> Q(0, 1)]

get_format_unchecked(t) == IF t \in DataTypeNames THEN Ok(data_types(t)) ELSE Ok("h")

get_format(t) ==
    IF t \in DataTypeNames THEN Ok(data_types(t)) ELSE Raise("ValueError")

calcsize(t) ==
    LET f == get_format(t)
    IN  IF f.ok THEN Ok(StructSize(f.v)) ELSE f

\* struct.pack(">H", w) for each word: high byte first
RECURSIVE int16list_to_bytes(_)
int16list_to_bytes(int16_list) ==
    IF int16_list = <<>> THEN <<>>
    ELSE <<Head(int16_list) \div 256, Head(int16_list) % 256>>
            \o int16list_to_bytes(Tail(int16_list))

\* IEEE-754 binary32 from its big-endian bytes
FloatValue(b) ==
    LET sign == IF b[1] >= 128 THEN -1 ELSE 1
        exp == (b[1] % 128) * 2 + (b[2] \div 128)
        mant == (b[2] % 128) * 65536 + b[3] * 256 + b[4]
    IN  IF exp = 255 THEN (IF mant = 0 THEN [k |-> "inf", n |-> sign, d |-> 1] ELSE NaN)
        ELSE IF exp = 0 THEN (IF mant = 0 THEN Q(0, 1) ELSE Num("sub", sign * mant, 1))
        ELSE IF exp >= 150 THEN Q(sign * (8388608 + mant) * Pow2(exp - 150), 1)
        ELSE Q(sign * (8388608 + mant), Pow2(150 - exp))

\* struct.unpack(">" + fmt, byte_list)[0]
Unpack(fmt, b) ==
    CASE fmt = "h" ->
            LET u == b[1] * 256 + b[2]
            IN  Ok(Q(IF u >= 32768 THEN u - 65536 ELSE u, 1))
      [] fmt = "H" -> Ok(Q(b[1] * 256 + b[2], 1))
      [] fmt = "I" -> Ok(Q(((b[1] * 256 + b[2]) * 256 + b[3]) * 256 + b[4], 1))
      [] fmt = "f" -> Ok(FloatValue(b))
      [] fmt = "x" -> Raise("IndexError")
      [] fmt = "?" -> Ok(PyBool(b[1] # 0))

bytes_to_datatype(byte_list, data_type) ==
    LET size == calcsize(data_type)
    IN  IF ~size.ok THEN size
        ELSE IF size.v # Len(byte_list) THEN Raise("ValueError")
        ELSE Unpack(get_format(data_type).v, byte_list)

-----------------------------------------------------------------------------
(* ModbusReader.group_modbus_device_definition *)

FunctionTypes == <<"discrete_inputs", "discrete_outputs", "input_registers", "output_registers">>

IsDiscrete(function_type) == function_type \in {"discrete_inputs", "discrete_outputs"}

\* Python's None for start_address / last_address / next_address
NoAddress == -1

\* sorted(config_sensors.items(), key=address): stable insertion sort
RECURSIVE InsertByAddress(_, _)
InsertByAddress(sorted, s) ==
    IF sorted = <<>> THEN <<s>>
    ELSE IF s.address < Head(sorted).address THEN <<s>> \o sorted
    ELSE <<Head(sorted)>> \o InsertByAddress(Tail(sorted), s)

RECURSIVE SortByAddress(_)
SortByAddress(sensors) ==
    IF sensors = <<>> THEN <<>>
    ELSE InsertByAddress(SortByAddress(SubSeq(sensors, 1, Len(sensors) - 1)),
                         sensors[Len(sensors)])

\* int(structutils.calcsize(type) / 2)
RegisterCount(type) == calcsize(type).v \div 2

\* "last_address is None or last_address + last_count == current_address"
ExtendsOpenGroup(last_address, last_count, current_address) ==
    last_address = NoAddress \/ last_address + last_count = current_address

ClosesAlways(next_address, current_address, count) == TRUE

ClosesOnlyAtEnd(next_address, current_address, count) == next_address = NoAddress

\* "next_address is None or current_address + count != next_address"
ClosesGroup(next_address, current_address, count) ==
    next_address = NoAddress \/ current_address + count # next_address

SpanWithoutLast(start_address, current_address, count) == current_address - start_address

\* the emitted "count": current_address + count - start_address
GroupSpan(start_address, current_address, count) ==
    current_address + count - start_address

OpenScan == [start |-> NoAddress, last |-> NoAddress, last_count |-> 0,
             sensors |-> <<>>, groups |-> <<>>]

\* the loop over sorted discretes, from index i on
RECURSIVE ScanDiscretes(_, _, _)
ScanDiscretes(sorted, i, st) ==
    IF i > Len(sorted) THEN st.groups
    ELSE
    LET sensor_config == sorted[i]
        current_address == sensor_config.address
        next_address == IF i < Len(sorted) THEN sorted[i + 1].address ELSE NoAddress
        start_address == IF st.start = NoAddress THEN current_address ELSE st.start
        add == ExtendsOpenGroup(st.last, 1, current_address)
        sensors == IF add THEN Append(st.sensors, sensor_config) ELSE st.sensors
        last_address == IF add THEN current_address ELSE st.last
    IN  IF ClosesGroup(next_address, current_address, 1)
        THEN ScanDiscretes(sorted, i + 1,
                [OpenScan EXCEPT !.groups = Append(st.groups,
                    [start_address |-> start_address,
                     count |-> GroupSpan(start_address, current_address, 1),
                     sensors |-> sensors])])
        ELSE ScanDiscretes(sorted, i + 1,
                [st EXCEPT !.start = start_address, !.last = last_address,
                           !.sensors = sensors])

WithCount(s, count) ==
    [id |-> s.id, address |-> s.address, type |-> s.type, fn |-> s.fn, fd |-> s.fd,
     eq |-> s.eq, count |-> count]

\* the loop over sorted registers, from index i on
RECURSIVE ScanRegisters(_, _, _)
ScanRegisters(sorted, i, st) ==
    IF i > Len(sorted) THEN Ok(st.groups)
    ELSE IF ~calcsize(sorted[i].type).ok THEN Raise("ValueError")
    ELSE
    LET sensor_config == WithCount(sorted[i], RegisterCount(sorted[i].type))
        current_address == sensor_config.address
        next_address == IF i < Len(sorted) THEN sorted[i + 1].address ELSE NoAddress
        start_address == IF st.start = NoAddress THEN current_address ELSE st.start
        add == ExtendsOpenGroup(st.last, st.last_count, current_address)
        sensors == IF add THEN Append(st.sensors, sensor_config) ELSE st.sensors
        last_address == IF add THEN current_address ELSE st.last
        last_count == IF add THEN sensor_config.count ELSE st.last_count
    IN  IF ClosesGroup(next_address, current_address, sensor_config.count)
        THEN ScanRegisters(sorted, i + 1,
                [OpenScan EXCEPT !.groups = Append(st.groups,
                    [start_address |-> start_address,
                     count |-> GroupSpan(start_address, current_address,
                                         sensor_config.count),
                     sensors |-> sensors])])
        ELSE ScanRegisters(sorted, i + 1,
                [st EXCEPT !.start = start_address, !.last = last_address,
                           !.last_count = last_count, !.sensors = sensors])

GroupCategory(function_type, config_sensors) ==
    IF IsDiscrete(function_type)
    THEN Ok(ScanDiscretes(SortByAddress(config_sensors), 1, OpenScan))
    ELSE ScanRegisters(SortByAddress(config_sensors), 1, OpenScan)

EmptyGrouped == [function_type \in {FunctionTypes[i] : i \in 1..4} |-> <<>>]

\* the loop over the four function types; the first ValueError aborts it
group_modbus_device_definition(modbus_device_definition) ==
    LET g == [function_type \in DOMAIN EmptyGrouped |->
                GroupCategory(function_type, modbus_device_definition[function_type])]
    IN  IF \E function_type \in DOMAIN g : ~g[function_type].ok
        THEN Raise("ValueError")
        ELSE Ok([function_type \in DOMAIN g |-> g[function_type].v])

\* the module-level table: the imported math names, 'math' -> None, abs
SafeMathNames ==
    {"math", "acos", "asin", "atan", "atan2", "ceil", "cos", "cosh", "degrees", "e",
     "exp", "fabs", "floor", "fmod", "frexp", "hypot", "ldexp", "log", "log10", "modf",
     "pi", "pow", "radians", "sin", "sinh", "sqrt", "tan", "tanh", "abs"}

safe_math_functions ==
    [name \in SafeMathNames |->
        IF name = "math" THEN [k |-> "None", n |-> 0, d |-> 1]
        ELSE IF name \in {"e", "pi"} THEN [k |-> "const", n |-> 0, d |-> 1]
        ELSE [k |-> "fn", n |-> 0, d |-> 1]]

NoOutcome == [kind |-> "none", err |-> "none", msg |-> "", reading |-> <<>>]

NoFailure == [kind |-> "none", cat |-> 0, gi |-> 0, err |-> "none", msg |-> ""]

NoCodec == [stage |-> "off"]

\* everything but the definition, before __init__ runs
Fresh ==
    /\ phase = "new"
    /\ ctor_error = "none"
    /\ grouped = EmptyGrouped
    /\ client = "none"
    /\ safe_math = safe_math_functions
    /\ pc = "idle"
    /\ api = "none"
    /\ arg = "none"
    /\ cat = 0
    /\ gi = 0
    /\ inner = <<>>
    /\ merged = <<>>
    /\ calls = <<>>
    /\ outcome = NoOutcome
    /\ failed_at = NoFailure
    /\ codec = NoCodec

\* ModbusReader.__init__: group, then create the client
Construct ==
    /\ phase = "new"
    /\ LET g == group_modbus_device_definition(definition)
       IN  IF g.ok
           THEN /\ grouped' = g.v
                /\ client' = "ModbusTcpClient"
                /\ phase' = "ready"
                /\ ctor_error' = "none"
           ELSE /\ grouped' = grouped
                /\ client' = client
                /\ phase' = "failed"
                /\ ctor_error' = g.err
    /\ UNCHANGED <<definition, flbf, safe_math, pc, api, arg, cat, gi, inner, merged,
                   calls, outcome, failed_at, codec>>

-----------------------------------------------------------------------------
(* Device definitions for the grouping checks *)

MaxSensors == 3
MaxAddress == 3

SensorIds == <<"a", "b", "c", "d", "e">>

Reg(id, address, type, f, eq) ==
    [id |-> id, address |-> address, type |-> type, fn |-> f[1], fd |-> f[2], eq |-> eq]

Disc(id, address) == [id |-> id, address |-> address]

\* the i-th sensor has id SensorIds[i] and address addresses[i]
DiscreteConfig(addresses) ==
    [i \in DOMAIN addresses |-> Disc(SensorIds[i], addresses[i])]

RegisterConfig(addresses, types) ==
    [i \in DOMAIN addresses |-> Reg(SensorIds[i], addresses[i], types[i], <<1, 1>>, "none")]

\* a lone register of any type name, or several of widths 0, 1 and 2
GroupingTypes(n) ==
    IF n = 1 THEN DataTypeNames \cup {"int64"} ELSE {"int16", "uint32", "byte"}

OnlyCategory(function_type, config_sensors) ==
    [ft \in DOMAIN EmptyGrouped |-> IF ft = function_type THEN config_sensors ELSE <<>>]

\* one category of up to MaxSensors sensors at addresses 0..MaxAddress, in any
\* order, duplicates and overlaps included
InitGroup ==
    /\ \E n \in 0..MaxSensors : \E addresses \in [1..n -> 0..MaxAddress] :
          \/ \E ft \in {"discrete_inputs", "discrete_outputs"} :
                definition = OnlyCategory(ft, DiscreteConfig(addresses))
          \/ \E ft \in {"input_registers", "output_registers"} :
                \E types \in [1..n -> GroupingTypes(n)] :
                    definition = OnlyCategory(ft, RegisterConfig(addresses, types))
    /\ flbf = FALSE
    /\ Fresh

NextGroup == Construct

SpecGroup == InitGroup /\ [][NextGroup]_vars

-----------------------------------------------------------------------------
(* Grouping claims, checked under SpecGroup *)

CategoryNames == DOMAIN EmptyGrouped

\* occupied width of a configured sensor: 1 bit, or the register word count
WidthIn(ft, s) == IF IsDiscrete(ft) THEN 1 ELSE RegisterCount(s.type)

KnownTypes(ft) ==
    IsDiscrete(ft) \/ \A i \in DOMAIN definition[ft] : definition[ft][i].type \in DataTypeNames

\* unique addresses, and no sensor starts before an earlier one has ended
UniqueDisjoint(ft) ==
    LET c == definition[ft]
    IN  /\ KnownTypes(ft)
        /\ \A i, j \in DOMAIN c :
              i # j => /\ c[i].address # c[j].address
                       /\ c[i].address < c[j].address
                            => c[i].address + WidthIn(ft, c[i]) <= c[j].address

\* number of maximal contiguous runs of the category's sensors
RunCount(ft) ==
    LET sorted == SortByAddress(definition[ft])
    IN  IF sorted = <<>> THEN 0
        ELSE 1 + Cardinality({i \in 1..(Len(sorted) - 1) :
                    sorted[i].address + WidthIn(ft, sorted[i]) # sorted[i + 1].address})

RECURSIVE GroupedIds(_)
GroupedIds(groups) ==
    IF groups = <<>> THEN <<>>
    ELSE [i \in DOMAIN Head(groups).sensors |-> Head(groups).sensors[i].id]
            \o GroupedIds(Tail(groups))

SortedIds(ft) ==
    LET sorted == SortByAddress(definition[ft])
    IN  [i \in DOMAIN sorted |-> sorted[i].id]

GroupIsRun(ft, g) ==
    LET n == Len(g.sensors)
    IN  /\ n >= 1
        /\ g.start_address = g.sensors[1].address
        /\ \A j \in 1..(n - 1) :
              g.sensors[j + 1].address = g.sensors[j].address + WidthIn(ft, g.sensors[j])
        /\ g.count = g.sensors[n].address + WidthIn(ft, g.sensors[n]) - g.start_address

GroupsAreMaximalRuns(ft) ==
    LET gs == grouped[ft]
    IN  /\ GroupedIds(gs) = SortedIds(ft)
        /\ \A k \in DOMAIN gs : GroupIsRun(ft, gs[k])
        /\ \A k \in 1..(Len(gs) - 1) :
              gs[k].start_address + gs[k].count < gs[k + 1].start_address
        /\ Len(gs) = RunCount(ft)

\* C1: for every category with unique addresses and non-overlapping spans, the
\* emitted groups are, in ascending address order, exactly the maximal contiguous
\* runs: contiguous inside, start and count spanning the run, a gap between
\* consecutive groups, as many groups as runs.
C1_GroupsAreMaximalRuns ==
    phase = "ready" =>
        \A ft \in CategoryNames : UniqueDisjoint(ft) => GroupsAreMaximalRuns(ft)

\* Scenario A, discretes at 0, 1, 3, grouped into {0, 2, {a, b}} and {3, 1, {c}}
C1_Witness ==
    /\ phase = "ready"
    /\ definition["discrete_inputs"] =
          <<[id |-> "a", address |-> 0], [id |-> "b", address |-> 1],
            [id |-> "c", address |-> 3]>>
    /\ grouped["discrete_inputs"] =
          <<[start_address |-> 0, count |-> 2,
             sensors |-> <<[id |-> "a", address |-> 0], [id |-> "b", address |-> 1]>>],
            [start_address |-> 3, count |-> 1,
             sensors |-> <<[id |-> "c", address |-> 3]>>]>>

\* byte sizes and word widths as the claim states them
StatedByteSize(type) ==
    CASE type \in {"int16", "int32"} -> 2
      [] type \in {"uint32", "float"} -> 4
      [] type \in {"byte", "boolean"} -> 1

StatedWidth(type) == (StatedByteSize(type) + 1) \div 2

\* C5: every register sensor's derived width is ceil(byte_size(type)/2) words,
\* and a register category holding a single sensor yields exactly one group with
\* start_address = the sensor's address and count = that width (never 0).
C5_WidthIsCeilOfHalfSize ==
    phase = "ready" =>
        \A ft \in {"input_registers", "output_registers"} :
            /\ \A k \in DOMAIN grouped[ft] : \A j \in DOMAIN grouped[ft][k].sensors :
                  grouped[ft][k].sensors[j].count = StatedWidth(grouped[ft][k].sensors[j].type)
            /\ Len(definition[ft]) = 1 =>
                  /\ Len(grouped[ft]) = 1
                  /\ grouped[ft][1].start_address = definition[ft][1].address
                  /\ grouped[ft][1].count = StatedWidth(definition[ft][1].type)
                  /\ grouped[ft][1].count # 0

-----------------------------------------------------------------------------
(* structutils round trip, checked under SpecCodec *)

\* the big-endian 16-bit words a device sends for value v of type T
EncodeAsWords(v, T) ==
    CASE T = "int16" -> <<v.n % 65536>>
      [] T \in {"int32", "uint32"} -> <<(v.n \div 65536) % 65536, v.n % 65536>>
      [] T = "float" ->
            (CASE v = Q(0, 1) -> <<0, 0>>
               [] v = Q(1, 1) -> <<16256, 0>>
               [] v = Q(-1, 1) -> <<49024, 0>>
               [] v = Q(1, 2) -> <<16128, 0>>
               [] v = Q(5, 8) -> <<16160, 0>>
               [] v = Q(-5, 2) -> <<49184, 0>>
               [] v = Q(3, 1) -> <<16448, 0>>
               [] v = Num("sub", 1, 1) -> <<0, 1>>)
      [] T \in {"byte", "boolean"} -> <<v.n>>

SampleValues(T) ==
    CASE T = "int16" -> {Q(n, 1) : n \in {-32768, -1, 0, 1, 32767}}
      [] T = "int32" -> {Q(n, 1) : n \in {-2147483647, -1, 0, 1, 65535, 65536, 2147483647}}
      [] T = "uint32" -> {Q(n, 1) : n \in {0, 1, 65535, 65536, 2147483647}}
      [] T = "float" -> {Q(0, 1), Q(1, 1), Q(-1, 1), Q(1, 2), Q(5, 8), Q(-5, 2), Q(3, 1),
                         Num("sub", 1, 1)}
      [] T = "byte" -> {Q(n, 1) : n \in {0, 1, 255}}
      [] T = "boolean" -> {PyBool(FALSE), PyBool(TRUE)}

InitCodec ==
    /\ definition = EmptyGrouped
    /\ flbf = FALSE
    /\ phase = "new"
    /\ ctor_error = "none"
    /\ grouped = EmptyGrouped
    /\ client = "none"
    /\ safe_math = safe_math_functions
    /\ pc = "idle"
    /\ api = "none"
    /\ arg = "none"
    /\ cat = 0
    /\ gi = 0
    /\ inner = <<>>
    /\ merged = <<>>
    /\ calls = <<>>
    /\ outcome = NoOutcome
    /\ failed_at = NoFailure
    /\ \E T \in DataTypeNames : \E v \in SampleValues(T) :
          codec = [stage |-> "value", type |-> T, value |-> v, words |-> <<>>,
                   bytes |-> <<>>, result |-> Raise("none")]

CodecFrame ==
    UNCHANGED <<definition, flbf, phase, ctor_error, grouped, client, safe_math, pc,
                api, arg, cat, gi, inner, merged, calls, outcome, failed_at>>

\* the device encodes the value as words
EncodeValue ==
    /\ codec.stage = "value"
    /\ codec' = [codec EXCEPT !.stage = "words",
                              !.words = EncodeAsWords(codec.value, codec.type)]
    /\ CodecFrame

\* structutils.int16list_to_bytes
PackWords ==
    /\ codec.stage = "words"
    /\ codec' = [codec EXCEPT !.stage = "bytes", !.bytes = int16list_to_bytes(codec.words)]
    /\ CodecFrame

\* structutils.bytes_to_datatype
DecodeBytes ==
    /\ codec.stage = "bytes"
    /\ codec' = [codec EXCEPT !.stage = "decoded",
                              !.result = bytes_to_datatype(codec.bytes, codec.type)]
    /\ CodecFrame

NextCodec == EncodeValue \/ PackWords \/ DecodeBytes

SpecCodec == InitCodec /\ [][NextCodec]_vars

\* C6: encoding an in-range value of a supported type as big-endian words,
\* packing them with int16list_to_bytes and decoding with bytes_to_datatype
\* returns the value.
C6_RoundTrip ==
    codec.stage = "decoded" => codec.result.ok /\ codec.result.v = codec.value

\* the part of the round trip the code does satisfy
C6_RoundTripWhereWidthsAgree ==
    codec.stage = "decoded" /\ codec.type \in {"int16", "uint32", "float"}
        => codec.result.ok /\ codec.result.v = codec.value

-----------------------------------------------------------------------------
(* read_discretes / read_registers: decoding one group's range result *)

Returned(readings, table) ==
    [ok |-> TRUE, err |-> "none", msg |-> "", readings |-> readings, table |-> table]

Raised(err, msg, table) ==
    [ok |-> FALSE, err |-> err, msg |-> msg, readings |-> <<>>, table |-> table]

\* sensor_readings.update({sensor_id: value})
Update(readings, sensor_id, value) == (sensor_id :> value) @@ readings

\* the loop over discretes[i]["sensors"], from sensor j on
RECURSIVE DecodeDiscretes(_, _, _, _, _)
DecodeDiscretes(group, results, discrete_type, j, readings) ==
    IF j > Len(group.sensors) THEN Returned(readings, <<>>)
    ELSE
    LET position == group.sensors[j].address - group.start_address
    IN  IF ~results.present
        THEN Raised("IOError", "reading discrete " \o discrete_type \o "s failed", <<>>)
        ELSE IF position + 1 > Len(results.data)
        THEN Raised("IndexError", "list index out of range", <<>>)
        ELSE DecodeDiscretes(group, results, discrete_type, j + 1,
                Update(readings, group.sensors[j].id, PyBool(results.data[position + 1])))

\* results.registers[position_start:position_end], clipped as a Python slice
Slice(registers, position_start, position_end) ==
    SubSeq(registers, position_start + 1, Min(position_end, Len(registers)))

Reverse(seq) == [i \in DOMAIN seq |-> seq[Len(seq) + 1 - i]]

Correction(ok, v) == [ok |-> ok, v |-> v]

\* eval(equation, {"__builtins__": None}, table) followed by float()
Eval(equation, table) ==
    LET has(name) == name \in DOMAIN table
        isfn(name) == has(name) /\ table[name].k = "fn"
    IN  CASE equation = "x * 2" ->
                IF has("x") THEN Correction(TRUE, NumMul(table["x"], 2, 1))
                ELSE Correction(FALSE, NaN)
          [] equation = "x / 4" ->
                IF has("x") THEN Correction(TRUE, NumMul(table["x"], 1, 4))
                ELSE Correction(FALSE, NaN)
          [] equation = "floor(sqrt(x - 1))" ->
                IF isfn("floor") /\ isfn("sqrt") /\ has("x") /\ table["x"].k \in {"q", "bool"}
                   /\ table["x"].n >= table["x"].d
                THEN Correction(TRUE, Q(ISqrt((table["x"].n - table["x"].d) \div table["x"].d), 1))
                ELSE Correction(FALSE, NaN)
          [] equation = "sqrt(-1)" -> Correction(FALSE, NaN)
          [] equation = "y + 1" ->
                IF has("y") THEN Correction(TRUE, table["y"]) ELSE Correction(FALSE, NaN)

BindNothing(table, sensor_value) == table

BindE(table, sensor_value) == ("e" :> sensor_value) @@ table

\* _safe_math_functions['x'] = sensor_value
BindX(table, sensor_value) == ("x" :> sensor_value) @@ table

IntegerTypes == {"int16", "int32", "uint32"}

RoundsEveryType == DataTypeNames

\* the types whose value is rounded
RoundedTypes == IntegerTypes

NearestDigits(fn, fd) == RoundHalfEven(fd * (IF fn < 0 THEN -1 ELSE 1), Abs(fn))

\* int(1 / register["factor"])
NDigits(fn, fd) == Trunc(fd, fn)

\* the body of the loop over registers[i]["sensors"], for one sensor
DecodeRegister(register, group, results, register_type, float_low_byte_first, table) ==
    LET position_start == register.address - group.start_address
        position_end == position_start + register.count
        words == Slice(results.data, position_start, position_end)
        byte_list == IF register.type = "float" /\ float_low_byte_first
                     THEN int16list_to_bytes(Reverse(words))
                     ELSE int16list_to_bytes(words)
        raw == bytes_to_datatype(byte_list, register.type)
        scaled == NumMul(raw.v, register.fn, register.fd)
        bound == IF register.eq # "none" THEN BindX(table, scaled) ELSE table
        fixed == IF register.eq # "none" THEN Eval(register.eq, bound)
                 ELSE Correction(FALSE, scaled)
        sensor_value == IF fixed.ok THEN fixed.v ELSE scaled
        reported == IF register.type \in RoundedTypes
                    THEN PyRound(sensor_value, NDigits(register.fn, register.fd))
                    ELSE sensor_value
    IN  IF ~results.present
        THEN [ok |-> FALSE, err |-> "IOError",
              msg |-> "reading " \o register_type \o " registers failed",
              v |-> NaN, table |-> table]
        ELSE IF ~raw.ok
        THEN [ok |-> FALSE, err |-> raw.err, msg |-> "", v |-> NaN, table |-> table]
        ELSE [ok |-> TRUE, err |-> "none", msg |-> "", v |-> reported, table |-> bound]

\* the loop over registers[i]["sensors"], from sensor j on
RECURSIVE DecodeRegisters(_, _, _, _, _, _, _)
DecodeRegisters(group, results, register_type, float_low_byte_first, j, readings, table) ==
    IF j > Len(group.sensors) THEN Returned(readings, table)
    ELSE
    LET one == DecodeRegister(group.sensors[j], group, results, register_type,
                              float_low_byte_first, table)
    IN  IF ~one.ok THEN Raised(one.err, one.msg, one.table)
        ELSE DecodeRegisters(group, results, register_type, float_low_byte_first, j + 1,
                Update(readings, group.sensors[j].id, one.v), one.table)

-----------------------------------------------------------------------------
(* The read calls, one step per range read *)

\* what the client may answer to a range read of `count` items: no usable
\* result (None or an error response), too few items, or `count` items
RECURSIVE SeqsOver(_, _)
SeqsOver(S, n) ==
    IF n = 0 THEN {<<>>} ELSE {Append(p, x) : p \in SeqsOver(S, n - 1), x \in S}

WordValues == {0, 5}

Absent == [present |-> FALSE, data |-> <<>>]

DeviceResults(function_type, count) ==
    LET items == IF IsDiscrete(function_type) THEN BOOLEAN ELSE WordValues
        filler == IF IsDiscrete(function_type) THEN TRUE ELSE 5
        short == IF count = 0 THEN {} ELSE {[i \in 1..(count - 1) |-> filler]}
    IN  {Absent} \cup {[present |-> TRUE, data |-> d] : d \in SeqsOver(items, count) \cup short}

TypeArguments == {"input", "output", "holding"}

\* "discrete_" + discrete_type + "s", register_type + "_registers"
CategoryIndex(method, type) ==
    IF method = "read_discretes"
    THEN (IF type = "input" THEN 1 ELSE 2)
    ELSE (IF type = "input" THEN 3 ELSE 4)

TypeOfCategory(c) == IF c \in {1, 3} THEN "input" ELSE "output"

\* the client operation each branch of the read loops calls
ClientOperation(c) ==
    CASE c = 1 -> "read_discrete_inputs"
      [] c = 2 -> "read_coils"
      [] c = 3 -> "read_input_registers"
      [] c = 4 -> "read_holding_registers"

OutputsFirst == <<2, 1, 4, 3>>

\* read_all_values: discrete inputs, discrete outputs, input registers, output registers
ReadAllOrder == <<1, 2, 3, 4>>

PositionOf(c) == CHOOSE p \in 1..4 : ReadAllOrder[p] = c

\* positions after p whose category has groups ("if len(...) == 0: return")
LaterWithGroups(p) == {q \in (p + 1)..4 : Len(grouped[FunctionTypes[ReadAllOrder[q]]]) > 0}

SwallowsNonIOError(failure) ==
    [abort |-> failure.err = "IOError", err |-> failure.err, msg |-> failure.msg]

\* read_all_values on an exception of a read: "except IOError as io_error:
\* raise io_error"; any other exception propagates uncaught
ReadAllOnError(failure) == [abort |-> TRUE, err |-> failure.err, msg |-> failure.msg]

ReturnValue(reading) == [kind |-> "ok", err |-> "none", msg |-> "", reading |-> reading]

Exception(err, msg) == [kind |-> "error", err |-> err, msg |-> msg, reading |-> <<>>]

\* read_discretes(type) / read_registers(type) up to the first range read
BeginRead(method, type) ==
    /\ phase = "ready"
    /\ pc = "idle"
    /\ api' = method
    /\ arg' = type
    /\ calls' = <<>>
    /\ inner' = <<>>
    /\ merged' = <<>>
    /\ failed_at' = NoFailure
    /\ IF type # "input" /\ type # "output"
       THEN /\ outcome' = Exception("AttributeError",
                             IF method = "read_discretes"
                             THEN "discrete type has to be either 'input' or 'output'"
                             ELSE "register type has to be either 'input' or 'output'")
            /\ pc' = "idle"
            /\ cat' = 0
            /\ gi' = 0
       ELSE IF Len(grouped[FunctionTypes[CategoryIndex(method, type)]]) = 0
       THEN /\ outcome' = ReturnValue(<<>>)
            /\ pc' = "idle"
            /\ cat' = CategoryIndex(method, type)
            /\ gi' = 0
       ELSE /\ outcome' = NoOutcome
            /\ pc' = "reading"
            /\ cat' = CategoryIndex(method, type)
            /\ gi' = 1
    /\ UNCHANGED <<definition, flbf, phase, ctor_error, grouped, client, safe_math, codec>>

ReadDiscretesCall == \E type \in TypeArguments : BeginRead("read_discretes", type)

ReadRegistersCall == \E type \in TypeArguments : BeginRead("read_registers", type)

\* read_all_values up to the first range read
ReadAllValuesCall ==
    /\ phase = "ready"
    /\ pc = "idle"
    /\ api' = "read_all_values"
    /\ arg' = "none"
    /\ calls' = <<>>
    /\ inner' = <<>>
    /\ merged' = <<>>
    /\ failed_at' = NoFailure
    /\ IF LaterWithGroups(0) = {}
       THEN /\ outcome' = ReturnValue(<<>>)
            /\ pc' = "idle"
            /\ cat' = 0
            /\ gi' = 0
       ELSE /\ outcome' = NoOutcome
            /\ pc' = "reading"
            /\ cat' = ReadAllOrder[CHOOSE q \in LaterWithGroups(0) :
                                        \A r \in LaterWithGroups(0) : q <= r]
            /\ gi' = 1
    /\ UNCHANGED <<definition, flbf, phase, ctor_error, grouped, client, safe_math, codec>>

KeepsEarlier(sensor_readings, readings) == sensor_readings @@ readings

\* read_all_values: sensor_readings.update(<the category's readings>)
MergeReadings(sensor_readings, readings) == readings @@ sensor_readings

\* the current read_discretes / read_registers has returned `readings`
CategoryDone(readings) ==
    IF api # "read_all_values"
    THEN /\ outcome' = ReturnValue(readings)
         /\ pc' = "idle"
         /\ UNCHANGED <<cat, gi, merged>>
         /\ inner' = readings
    ELSE LET all == MergeReadings(merged, readings)
             later == LaterWithGroups(PositionOf(cat))
         IN  /\ merged' = all
             /\ inner' = <<>>
             /\ IF later = {}
                THEN /\ outcome' = ReturnValue(all)
                     /\ pc' = "idle"
                     /\ UNCHANGED <<cat, gi>>
                ELSE /\ outcome' = outcome
                     /\ pc' = "reading"
                     /\ cat' = ReadAllOrder[CHOOSE q \in later : \A r \in later : q <= r]
                     /\ gi' = 1

\* one range read of the current group and the decoding of its result
AfterRangeRead(decoded) ==
    IF decoded.ok
    THEN /\ failed_at' = failed_at
         /\ IF gi < Len(grouped[FunctionTypes[cat]])
            THEN /\ gi' = gi + 1
                 /\ inner' = decoded.readings
                 /\ UNCHANGED <<pc, cat, merged, outcome>>
            ELSE CategoryDone(decoded.readings)
    ELSE /\ failed_at' = [kind |-> "raised", cat |-> cat, gi |-> gi,
                          err |-> decoded.err, msg |-> decoded.msg]
         /\ IF api # "read_all_values" \/ ReadAllOnError(decoded).abort
            THEN /\ outcome' = IF api = "read_all_values"
                               THEN Exception(ReadAllOnError(decoded).err,
                                              ReadAllOnError(decoded).msg)
                               ELSE Exception(decoded.err, decoded.msg)
                 /\ pc' = "idle"
                 /\ UNCHANGED <<cat, gi, inner, merged>>
            ELSE CategoryDone(<<>>)

RangeCall(results) ==
    LET group == grouped[FunctionTypes[cat]][gi]
    IN  [op |-> ClientOperation(cat), address |-> group.start_address,
         count |-> group.count, results |-> results]

ReadDiscreteGroup ==
    /\ pc = "reading"
    /\ cat \in {1, 2}
    /\ LET group == grouped[FunctionTypes[cat]][gi]
       IN  \E results \in DeviceResults(FunctionTypes[cat], group.count) :
              /\ calls' = Append(calls, RangeCall(results))
              /\ AfterRangeRead(DecodeDiscretes(group, results, TypeOfCategory(cat), 1, inner))
    /\ UNCHANGED <<definition, flbf, phase, ctor_error, grouped, client, safe_math, api,
                   arg, codec>>

ReadRegisterGroup ==
    /\ pc = "reading"
    /\ cat \in {3, 4}
    /\ LET group == grouped[FunctionTypes[cat]][gi]
       IN  \E results \in DeviceResults(FunctionTypes[cat], group.count) :
              LET decoded == DecodeRegisters(group, results, TypeOfCategory(cat), flbf, 1,
                                             inner, safe_math)
              IN  /\ calls' = Append(calls, RangeCall(results))
                  /\ safe_math' = decoded.table
                  /\ AfterRangeRead(decoded)
    /\ UNCHANGED <<definition, flbf, phase, ctor_error, grouped, client, api, arg, codec>>

-----------------------------------------------------------------------------
(* Device definitions for the read checks *)

Factors == {<<1, 1>>, <<5, 8>>, <<1, 10>>}

Equations == {"none", "x * 2", "x / 4", "floor(sqrt(x - 1))", "sqrt(-1)", "y + 1"}

\* one input register of every type, factor and equation, alone or followed by
\* an int16 register at address 1 or 2
FollowingRegisters ==
    {<<>>, <<Reg("b", 1, "int16", <<1, 1>>, "x * 2")>>,
     <<Reg("b", 2, "int16", <<1, 2>>, "none")>>}

RegisterFocus(t, f, eq, rest) ==
    [discrete_inputs |-> <<>>, discrete_outputs |-> <<>>,
     input_registers |-> <<Reg("a", 0, t, f, eq)>> \o rest, output_registers |-> <<>>]

\* all four categories together, with sensor ids shared between categories
DiscreteInputChoices == {<<>>, <<Disc("a", 0), Disc("b", 1), Disc("c", 3)>>}

DiscreteOutputChoices == {<<>>, <<Disc("a", 2)>>, <<Disc("d", 1), Disc("e", 0)>>}

InputRegisterChoices ==
    {<<>>, <<Reg("c", 4, "int16", <<1, 10>>, "none")>>,
     <<Reg("f", 0, "uint32", <<5, 8>>, "x * 2"), Reg("g", 3, "int32", <<1, 1>>, "x / 4")>>}

OutputRegisterChoices ==
    {<<>>, <<Reg("a", 1, "int16", <<1, 1>>, "floor(sqrt(x - 1))")>>,
     <<Reg("h", 0, "float", <<5, 8>>, "none")>>}

Init ==
    /\ \/ \E t \in DataTypeNames \cup {"int64"}, f \in Factors, eq \in Equations,
             rest \in FollowingRegisters :
                definition = RegisterFocus(t, f, eq, rest)
       \/ \E di \in DiscreteInputChoices, do \in DiscreteOutputChoices,
             ir \in InputRegisterChoices, or \in OutputRegisterChoices :
                definition = [discrete_inputs |-> di, discrete_outputs |-> do,
                              input_registers |-> ir, output_registers |-> or]
    /\ flbf \in BOOLEAN
    /\ Fresh

Next ==
    \/ Construct
    \/ ReadDiscretesCall
    \/ ReadRegistersCall
    \/ ReadAllValuesCall
    \/ ReadDiscreteGroup
    \/ ReadRegisterGroup

Spec == Init /\ [][Next]_vars

-----------------------------------------------------------------------------
(* Read claims, checked under Spec *)

Last(seq) == seq[Len(seq)]

StatedFailureMessage(c) ==
    CASE c = 1 -> "reading discrete inputs failed"
      [] c = 2 -> "reading discrete outputs failed"
      [] c = 3 -> "reading input registers failed"
      [] c = 4 -> "reading output registers failed"

AbsentOrShort(call) == ~call.results.present \/ Len(call.results.data) < call.count

\* C2: for every category and group, when the range read returns an absent
\* result or one shorter than the group's count, the read call fails with an
\* IOError whose message names the category, never with another kind of error.
C2_AbsentOrShortRaisesIOError ==
    calls # <<>> /\ AbsentOrShort(Last(calls))
        => outcome = Exception("IOError", StatedFailureMessage(cat))

\* the part the code does satisfy: an absent result raises the IOError
C2_AbsentRaisesIOError ==
    calls # <<>> /\ ~Last(calls).results.present
        => outcome = Exception("IOError", StatedFailureMessage(cat))

StatedOperation(c) ==
    CASE c = 1 -> "read_discrete_inputs"
      [] c = 2 -> "read_coils"
      [] c = 3 -> "read_input_registers"
      [] c = 4 -> "read_holding_registers"

CallsOf(c) == SelectSeq(calls, LAMBDA call : call.op = StatedOperation(c))

\* C3: in read_all_values, once a group's range read yields a fatal error, no
\* range read is issued for any later group or later category, no reading is
\* returned, and the caller receives the error raised at the failing group.
C3_AbortsOnFirstFailure ==
    api = "read_all_values" /\ failed_at.kind = "raised" =>
        /\ pc = "idle"
        /\ outcome = Exception(failed_at.err, failed_at.msg)
        /\ outcome.reading = <<>>
        /\ Len(CallsOf(failed_at.cat)) = failed_at.gi
        /\ Last(calls).op = StatedOperation(failed_at.cat)
        /\ Last(calls).address = grouped[FunctionTypes[failed_at.cat]][failed_at.gi].start_address
        /\ \A c \in 1..4 : c > failed_at.cat => CallsOf(c) = <<>>

\* a short discrete-input result aborts the call although registers remain to be read
C3_Witness ==
    /\ api = "read_all_values"
    /\ failed_at.kind = "raised"
    /\ failed_at.cat = 1
    /\ failed_at.err = "IndexError"
    /\ Len(grouped["input_registers"]) > 0
    /\ Len(grouped["output_registers"]) > 0
    /\ outcome.kind = "error"

\* the range reads a read_all_values is to issue, in the stated order
RECURSIVE StatedCallsFrom(_)
StatedCallsFrom(c) ==
    IF c > 4 THEN <<>>
    ELSE [k \in DOMAIN grouped[FunctionTypes[c]] |->
            [op |-> StatedOperation(c),
             address |-> grouped[FunctionTypes[c]][k].start_address,
             count |-> grouped[FunctionTypes[c]][k].count]]
         \o StatedCallsFrom(c + 1)

IssuedCalls == [k \in DOMAIN calls |->
                  [op |-> calls[k].op, address |-> calls[k].address, count |-> calls[k].count]]

IsPrefix(p, q) == Len(p) <= Len(q) /\ SubSeq(q, 1, Len(p)) = p

HasUniqueAddresses(ft) ==
    \A i, j \in DOMAIN definition[ft] :
        i # j => definition[ft][i].address # definition[ft][j].address

\* C9: a read_all_values in which no read fails issues its range reads one after
\* another in the order discrete inputs, discrete outputs, input registers,
\* output registers, within a category in ascending start_address order, one
\* call (start_address, count) per group, none for a category without groups.
C9_ReadsInCategoryAndAddressOrder ==
    api = "read_all_values" =>
        /\ IsPrefix(IssuedCalls, StatedCallsFrom(1))
        /\ outcome.kind = "ok" => IssuedCalls = StatedCallsFrom(1)
        /\ \A ft \in CategoryNames : \A k \in 1..(Len(grouped[ft]) - 1) :
              /\ grouped[ft][k].start_address <= grouped[ft][k + 1].start_address
              /\ HasUniqueAddresses(ft) =>
                    grouped[ft][k].start_address < grouped[ft][k + 1].start_address

\* two discrete-input groups, no discrete outputs, two register groups, one holding register
C9_Witness ==
    /\ api = "read_all_values"
    /\ outcome.kind = "ok"
    /\ Len(grouped["discrete_inputs"]) = 2
    /\ Len(grouped["discrete_outputs"]) = 0
    /\ Len(grouped["input_registers"]) = 2
    /\ Len(grouped["output_registers"]) = 1
    /\ Len(calls) = 5
    /\ calls[1].op = "read_discrete_inputs" /\ calls[1].address = 0 /\ calls[1].count = 2
    /\ calls[2].op = "read_discrete_inputs" /\ calls[2].address = 3
    /\ calls[5].op = "read_holding_registers"

\* C8: configuration errors fail fast: a type argument other than 'input' or
\* 'output' raises AttributeError without any range read, and an unknown data
\* type makes get_format, and so grouping at construction, raise ValueError
\* before any client or range read exists.
C8_ConfigurationErrorsFailFast ==
    /\ api \in {"read_discretes", "read_registers"} /\ arg \notin {"input", "output"} =>
          /\ outcome.kind = "error"
          /\ outcome.err = "AttributeError"
          /\ calls = <<>>
          /\ pc = "idle"
    /\ phase # "new"
          /\ (\E ft \in {"input_registers", "output_registers"} :
                \E i \in DOMAIN definition[ft] : definition[ft][i].type \notin DataTypeNames) =>
          /\ phase = "failed"
          /\ ctor_error = "ValueError"
          /\ client = "none"
          /\ calls = <<>>
          /\ api = "none"
    /\ phase = "failed" => ~get_format("int64").ok /\ get_format("int64").err = "ValueError"

C8_Witness ==
    /\ api = "read_registers"
    /\ arg = "holding"
    /\ outcome.err = "AttributeError"
    /\ Len(grouped["input_registers"]) > 0
    /\ calls = <<>>

C8_WitnessUnknownType ==
    /\ phase = "failed"
    /\ ctor_error = "ValueError"
    /\ client = "none"

-----------------------------------------------------------------------------
(* Register value claims, checked under Spec on completed read_registers calls *)

\* the decoded value of sensor s of `group`, from the words the range read returned
StatedRaw(s, group, data) ==
    LET words == Slice(data, s.address - group.start_address,
                       s.address - group.start_address + s.count)
    IN  bytes_to_datatype(int16list_to_bytes(IF s.type = "float" /\ flbf
                                             THEN Reverse(words) ELSE words), s.type)

StatedScaled(s, group, data) == NumMul(StatedRaw(s, group, data).v, s.fn, s.fd)

\* what each formula of Equations denotes for a given x, or that it fails
StatedCorrection(equation, x) ==
    CASE equation = "x * 2" -> Correction(TRUE, NumMul(x, 2, 1))
      [] equation = "x / 4" -> Correction(TRUE, NumMul(x, 1, 4))
      [] equation = "floor(sqrt(x - 1))" ->
            IF x.k = "q" /\ x.n >= x.d
            THEN Correction(TRUE, Q(ISqrt((x.n - x.d) \div x.d), 1))
            ELSE Correction(FALSE, x)
      [] equation \in {"sqrt(-1)", "y + 1", "none"} -> Correction(FALSE, x)

\* the scaled value, corrected when the sensor has a formula that evaluates
StatedFinal(s, group, data) ==
    LET x == StatedScaled(s, group, data)
        c == StatedCorrection(s.eq, x)
    IN  IF c.ok THEN c.v ELSE x

CompletedRegisterRead ==
    api = "read_registers" /\ arg \in {"input", "output"} /\ outcome.kind = "ok"

RegisterGroups == grouped[FunctionTypes[CategoryIndex("read_registers", arg)]]

\* C4: a failing error_correction formula does not fail read_registers; the
\* sensor then reports its pre-correction scaled value (through the rounding of
\* its type), every other sensor reports what it would have reported anyway,
\* and a formula that evaluates is applied to the sensor's own scaled value.
C4_CorrectionFailureFallsBack ==
    /\ CompletedRegisterRead =>
          \A k \in DOMAIN RegisterGroups : \A j \in DOMAIN RegisterGroups[k].sensors :
              LET s == RegisterGroups[k].sensors[j]
                  final == StatedFinal(s, RegisterGroups[k], calls[k].results.data)
              IN  outcome.reading[s.id] =
                      IF s.type \in RoundedTypes
                      THEN PyRound(final, NDigits(s.fn, s.fd)) ELSE final
    /\ api = "read_registers" /\ failed_at.kind = "raised" =>
          \/ ~Last(calls).results.present
          \/ \E j \in DOMAIN RegisterGroups[failed_at.gi].sensors :
                ~StatedRaw(RegisterGroups[failed_at.gi].sensors[j],
                           RegisterGroups[failed_at.gi], Last(calls).results.data).ok

\* sensor a's formula sqrt(-1) fails and a reports its scaled value 5, while
\* sensor b of the same group reports x * 2 of its own scaled value 5
C4_Witness ==
    /\ CompletedRegisterRead
    /\ arg = "input"
    /\ definition["input_registers"] =
          <<Reg("a", 0, "int16", <<1, 1>>, "sqrt(-1)"), Reg("b", 1, "int16", <<1, 1>>, "x * 2")>>
    /\ calls[1].results.data = <<5, 5>>
    /\ outcome.reading["a"] = Q(5, 1)
    /\ outcome.reading["b"] = Q(10, 1)

\* C7 as stated: integer-typed sensors are rounded to round(1 / factor) decimal
\* places (the nearest integer of 1/factor), 0 places for factor 1; float, byte
\* and boolean sensors are not rounded.
C7_RoundsToNearestOfInverseFactor ==
    CompletedRegisterRead =>
        \A k \in DOMAIN RegisterGroups : \A j \in DOMAIN RegisterGroups[k].sensors :
            LET s == RegisterGroups[k].sensors[j]
                final == StatedFinal(s, RegisterGroups[k], calls[k].results.data)
            IN  IF s.type \in {"int16", "int32", "uint32"}
                THEN /\ outcome.reading[s.id] = PyRound(final, NearestDigits(s.fn, s.fd))
                     /\ s.fn = s.fd => outcome.reading[s.id] = PyRound(final, 0)
                ELSE outcome.reading[s.id] = final

\* C7 as amended: integer-typed sensors are rounded to int(1 / factor) decimal
\* places, 1/factor truncated toward zero (1 place for factor 1, 10 places for
\* factor 0.1); float, byte and boolean sensors are not rounded.
C7_RoundsToTruncatedInverseFactor ==
    CompletedRegisterRead =>
        \A k \in DOMAIN RegisterGroups : \A j \in DOMAIN RegisterGroups[k].sensors :
            LET s == RegisterGroups[k].sensors[j]
                final == StatedFinal(s, RegisterGroups[k], calls[k].results.data)
                digits == IF (s.fd < 0) = (s.fn < 0) THEN Abs(s.fd) \div Abs(s.fn)
                          ELSE -(Abs(s.fd) \div Abs(s.fn))
            IN  IF s.type \in {"int16", "int32", "uint32"}
                THEN outcome.reading[s.id] = PyRound(final, digits)
                ELSE outcome.reading[s.id] = final

\* int16 word 5 with factor 1 and formula x / 4: 1.25 is reported as 1.2, one
\* decimal place
C7_Witness ==
    /\ CompletedRegisterRead
    /\ arg = "input"
    /\ definition["input_registers"] = <<Reg("a", 0, "int16", <<1, 1>>, "x / 4")>>
    /\ calls[1].results.data = <<5>>
    /\ outcome.reading["a"] = Q(6, 5)

\* C10 as stated: after construction no read call changes any state of the
\* reader or of the module, the math function table included; only the reading
\* it returns is new.
C10_ReadsMutateNothing ==
    [][phase = "ready" =>
          /\ grouped' = grouped
          /\ definition' = definition
          /\ client' = client
          /\ flbf' = flbf
          /\ safe_math' = safe_math]_vars

\* C10 as amended: after construction a read call changes neither the grouped
\* definition nor the client nor any entry of the math function table other
\* than 'x', which read_registers overwrites with the scaled value of each
\* sensor that has an error_correction; grouping is never recomputed and every
\* call starts from an empty reading.
C10_ReadsMutateOnlyX ==
    [][phase = "ready" =>
          /\ grouped' = grouped
          /\ definition' = definition
          /\ client' = client
          /\ flbf' = flbf
          /\ DOMAIN safe_math' \subseteq DOMAIN safe_math \cup {"x"}
          /\ \A name \in DOMAIN safe_math \ {"x"} :
                name \in DOMAIN safe_math' /\ safe_math'[name] = safe_math[name]
          /\ pc = "idle" /\ api' # api => inner' = <<>> /\ merged' = <<>>
          /\ pc = "idle" /\ pc' = "reading" => inner' = <<>> /\ merged' = <<>>]_vars

\* a read has left sensor values behind in the table shared by all readers
C10_Witness ==
    /\ phase = "ready"
    /\ pc = "idle"
    /\ outcome.kind = "ok"
    /\ "x" \in DOMAIN safe_math
    /\ safe_math["x"] = Q(5, 1)
    /\ safe_math["sqrt"] = safe_math_functions["sqrt"]

-----------------------------------------------------------------------------
(* Sensor ids shared between categories, checked under Spec *)

IdsOf(c) == {definition[FunctionTypes[c]][i].id : i \in DOMAIN definition[FunctionTypes[c]]}

CategoriesOf(id) == {c \in 1..4 : id \in IdsOf(c)}

LastCategoryOf(id) == CHOOSE c \in CategoriesOf(id) : \A b \in CategoriesOf(id) : b <= c

\* the value category c's range reads yielded for sensor id: the bit at the
\* sensor's position, or the register value scaled, corrected and rounded
StatedValueIn(c, id) ==
    LET gs == grouped[FunctionTypes[c]]
        k == CHOOSE k \in DOMAIN gs : \E j \in DOMAIN gs[k].sensors : gs[k].sensors[j].id = id
        s == gs[k].sensors[CHOOSE j \in DOMAIN gs[k].sensors : gs[k].sensors[j].id = id]
        data == CallsOf(c)[k].results.data
    IN  IF c \in {1, 2}
        THEN PyBool(data[s.address - gs[k].start_address + 1])
        ELSE LET final == StatedFinal(s, gs[k], data)
             IN  IF s.type \in {"int16", "int32", "uint32"}
                 THEN PyRound(final, Trunc(s.fd, s.fn)) ELSE final

CompletedReadAll == api = "read_all_values" /\ pc = "idle" /\ outcome.kind = "ok"

\* C11: a successful read_all_values returns a reading whose keys are the ids of
\* all four categories together; an id defined in several categories carries
\* the value read for the last of them in the order discrete inputs, discrete
\* outputs, input registers, output registers, an id defined in one category
\* carries that category's value, and sharing an id raises no error.
C11_LastCategoryWins ==
    /\ CompletedReadAll =>
          /\ DOMAIN outcome.reading = UNION {IdsOf(c) : c \in 1..4}
          /\ \A id \in DOMAIN outcome.reading :
                outcome.reading[id] = StatedValueIn(LastCategoryOf(id), id)
    /\ api = "read_all_values" /\ outcome.kind = "error" => failed_at.kind = "raised"

\* id a is a discrete input read as True, a discrete output and a holding
\* register read as 5: the reading carries floor(sqrt(5 - 1)) = 2 for a, and
\* the discrete input's bit for b, which only that category defines
C11_Witness ==
    /\ CompletedReadAll
    /\ CategoriesOf("a") = {1, 2, 4}
    /\ CategoriesOf("b") = {1}
    /\ CallsOf(1)[1].results.data = <<TRUE, FALSE>>
    /\ CallsOf(2)[1].results.data = <<FALSE>>
    /\ CallsOf(4)[1].results.data = <<5>>
    /\ outcome.reading["a"] = Q(2, 1)
    /\ outcome.reading["b"] = PyBool(FALSE)

-----------------------------------------------------------------------------
(* Ties and overlapping spans, checked under SpecGroup *)

\* the places <<group, position>> at which sensor id occurs in the category's groups
PlacesOf(ft, id) ==
    UNION {{<<k, j>> : j \in {j \in DOMAIN grouped[ft][k].sensors :
                                  grouped[ft][k].sensors[j].id = id}} :
           k \in DOMAIN grouped[ft]}

RECURSIVE SensorTotal(_)
SensorTotal(groups) ==
    IF groups = <<>> THEN 0 ELSE Len(Head(groups).sensors) + SensorTotal(Tail(groups))

HasTie(ft) ==
    \E i, j \in DOMAIN definition[ft] :
        i # j /\ definition[ft][i].address = definition[ft][j].address

HasOverlap(ft) ==
    \E i, j \in DOMAIN definition[ft] :
        /\ definition[ft][i].address < definition[ft][j].address
        /\ definition[ft][j].address < definition[ft][i].address + WidthIn(ft, definition[ft][i])

\* C12: for every definition whose types are all known, ties and overlapping
\* register spans included, grouping returns without raising, every sensor of a
\* category occurs in exactly one group of that category and no group holds
\* anything else, and the sensor's span [address, address + width) lies inside
\* its group's span [start_address, start_address + count).
C12_EverySensorInExactlyOneGroup ==
    phase # "new" /\ (\A ft \in CategoryNames : KnownTypes(ft)) =>
        /\ phase = "ready"
        /\ ctor_error = "none"
        /\ \A ft \in CategoryNames :
              /\ SensorTotal(grouped[ft]) = Len(definition[ft])
              /\ \A i \in DOMAIN definition[ft] :
                    LET s == definition[ft][i]
                        places == PlacesOf(ft, s.id)
                    IN  /\ Cardinality(places) = 1
                        /\ \A place \in places :
                              LET g == grouped[ft][place[1]]
                              IN  /\ g.sensors[place[2]].address = s.address
                                  /\ g.start_address <= s.address
                                  /\ s.address + WidthIn(ft, s) <= g.start_address + g.count

\* registers uint32 at 0, int16 at 1 and int16 at 1: the second starts inside
\* the first one's span and ties with the third; three groups, one sensor each
C12_Witness ==
    /\ phase = "ready"
    /\ HasTie("input_registers")
    /\ HasOverlap("input_registers")
    /\ Len(definition["input_registers"]) = 3
    /\ Len(grouped["input_registers"]) = 3
    /\ grouped["input_registers"][1].count = 2

\* a tie of a zero-width register with the next sensor shares one group
C12_WitnessTieInOneGroup ==
    /\ phase = "ready"
    /\ HasTie("output_registers")
    /\ Len(definition["output_registers"]) = 2
    /\ Len(grouped["output_registers"]) = 1
    /\ grouped["output_registers"][1].count = 1

====
